---- MODULE Spec2Model ----
(***************************************************************************)
(* A model of errory (src/src/index.ts): buildError, the errorFactory that *)
(* builds one Errory error, its "type" / "toJSON" / "wrappedError" /       *)
(* is[ErrorType] methods and the constructor's "is" predicate.             *)
(*                                                                         *)
(* A JavaScript string is a sequence of tokens (TLA+ strings); string      *)
(* concatenation is \o, String.prototype.includes is contiguous            *)
(* sub-sequence search, split('\n') splits at the "\n" token.              *)
(* A JavaScript value is a record with a kind field k.                     *)
(***************************************************************************)
EXTENDS Integers, Sequences, FiniteSets, TLC

VARIABLES errs, ret

vars == <<errs, ret>>

----------------------------------------------------------------------------
(* Bounds *)

\* number of Errory errors built in one run
MaxInst == 1

\* number of caller frames below the two internal frames of a raw trace
MaxFrames == 2

\* length of a chain of Errory errors, each wrapping the one built before
MaxChain == 3

----------------------------------------------------------------------------
(* JavaScript values *)

Undefined == [k |-> "undefined"]

Null == [k |-> "null"]

Str(s) == [k |-> "string", v |-> s]

Num(n) == [k |-> "number", v |-> n]

\* the number NaN (typeof NaN === 'number')
NaN == [k |-> "number", nan |-> TRUE]

Bool(b) == [k |-> "boolean", v |-> b]

\* a plain object; m maps its own enumerable keys to values
Obj(m) == [k |-> "object", m |-> m]

Arr(s) == [k |-> "array", v |-> s]

\* new Error(msg): a plain error, name "Error"
PlainError(msg) == [k |-> "Error", name |-> "Error", message |-> msg]

\* a reference to the Errory error held in errs[i]
ErroryRef(i) == [k |-> "Errory", id |-> i]

\* x instanceof Error
InstanceofError(x) == x.k \in {"Error", "Errory"}

\* JavaScript truthiness of a value
Truthy(x) ==
    CASE x.k = "undefined" -> FALSE
      [] x.k = "null" -> FALSE
      [] x.k = "string" -> x.v # <<>>
      [] x.k = "boolean" -> x.v
      [] x.k = "number" -> IF "nan" \in DOMAIN x THEN FALSE ELSE x.v # 0
      [] OTHER -> TRUE

----------------------------------------------------------------------------
(* Strings *)

\* s.includes(sub)
Includes(s, sub) ==
    \E i \in 1..(Len(s) + 1) :
        /\ i + Len(sub) - 1 <= Len(s)
        /\ SubSeq(s, i, i + Len(sub) - 1) = sub

\* ansi-colors c.green(s)
green(s) == <<"\\x1b[32m">> \o s \o <<"\\x1b[39m">>

RECURSIVE SplitNL(_)
\* s.split('\n'): the sequence of lines of s
SplitNL(s) ==
    IF \A i \in 1..Len(s) : s[i] # "\n"
    THEN <<s>>
    ELSE LET p == CHOOSE i \in 1..Len(s) :
                      s[i] = "\n" /\ \A j \in 1..(i - 1) : s[j] # "\n"
         IN <<SubSeq(s, 1, p - 1)>> \o SplitNL(SubSeq(s, p + 1, Len(s)))

RECURSIVE JoinNL(_)
\* lines.join('\n')
JoinNL(lines) ==
    IF lines = <<>> THEN <<>>
    ELSE IF Len(lines) = 1 THEN lines[1]
    ELSE lines[1] \o <<"\n">> \o JoinNL(Tail(lines))

----------------------------------------------------------------------------
(* Category names.  A name is the sequence <<first character, rest>>, so   *)
(* that capitalising its first character is computed, not assumed.         *)

DBError == <<"D", "BError">>

AuthError == <<"A", "uthError">>

typeA == <<"t", "ypeA">>

TypeA == <<"T", "ypeA">>

\* a name no registry declares
NetError == <<"N", "etError">>

\* ch.toUpperCase() for the first characters in use
ToUpperCase(ch) == IF ch = "t" THEN "T" ELSE ch

----------------------------------------------------------------------------
(* buildError(errorTypes, opts): one closure per registry *)

Registries == {"R1", "R2", "R3"}

\* the errorTypes argument of each buildError call, in declaration order
ErrorTypesArg(r) ==
    CASE r = "R1" -> << [name |-> DBError,
                         config |-> [context |-> [table |-> "string", rows |-> "number"]]],
                        [name |-> AuthError,
                         config |-> [context |-> [cookieExpired |-> "boolean"]]] >>
      [] r = "R2" -> << >>
      [] r = "R3" -> << [name |-> typeA, config |-> [context |-> << >>]],
                        [name |-> TypeA, config |-> [context |-> << >>]] >>

\* the opts argument of each buildError call
OptsArg(r) ==
    CASE r = "R1" -> [locationInMessage |-> TRUE,
                      locationAsRelativePath |-> TRUE,
                      typeInMessage |-> TRUE]
      [] r = "R2" -> << >>
      [] r = "R3" -> << >>

\* Object.assign({}, a, b) on records
Assign(a, b) ==
    [key \in (DOMAIN a) \cup (DOMAIN b) |-> IF key \in DOMAIN b THEN b[key] ELSE a[key]]

defaultErrorTypeConfig == [context |-> << >>]

setupErrorTypes(errorTypes) ==
    [n \in 1..Len(errorTypes) |->
        [name |-> errorTypes[n].name,
         config |-> Assign(defaultErrorTypeConfig, errorTypes[n].config)]]

configuredErrorTypes(r) == setupErrorTypes(ErrorTypesArg(r))

defaultInstanceOptions ==
    [locationInMessage |-> FALSE,
     locationAsRelativePath |-> FALSE,
     typeInMessage |-> FALSE,
     typePreceedingChars |-> <<"--">>,
     wrappedErrorInMessage |-> TRUE]

\* instanceOptions after setInstanceOptions(opts)
instanceOptions(r) == Assign(defaultInstanceOptions, OptsArg(r))

\* the names a registry declares
Declared(r) == {configuredErrorTypes(r)[n].name : n \in 1..Len(configuredErrorTypes(r))}

----------------------------------------------------------------------------
(* Stack traces *)

\* the n-th frame of the calling code, as error-stack-parser reports it
CallerFrame(n) ==
    [functionName |-> "caller" \o ToString(n),
     fileName |-> <<"/cwd", "/", "src/file" \o ToString(n) \o ".ts">>,
     lineNumber |-> "10",
     columnNumber |-> "5"]

\* the line a frame has in the textual trace
FrameLine(f) == <<"    at " \o f.functionName>>

\* the two internal frames on top of every trace captured by errorFactory
InternalFrames ==
    << [functionName |-> "errorFactory", fileName |-> <<"/cwd", "/", "src/index.ts">>,
        lineNumber |-> "271", columnNumber |-> "13"],
       [functionName |-> "errorConstructor", fileName |-> <<"/cwd", "/", "src/index.ts">>,
        lineNumber |-> "510", columnNumber |-> "10"] >>

\* the frames of the Error() created in errorFactory, called from depth caller frames
RawFrames(depth) == InternalFrames \o [n \in 1..depth |-> CallerFrame(n)]

\* err.stack of the Error() created in errorFactory (name "Error", no message)
RawStack(depth) ==
    JoinNL(<< <<"Error">> >> \o [n \in 1..(depth + 2) |-> FrameLine(RawFrames(depth)[n])])

\* ErrorStackParser.parse(err)
ErrorStackParserParse(depth) == RawFrames(depth)

\* a.splice(0, n) leaves the elements after the first n
DropFirst(a, n) == SubSeq(a, n + 1, Len(a))

----------------------------------------------------------------------------
(* Rendering.  h is the heap of Errory errors (the value of errs).         *)

\* Error.prototype.toString applied to an error value
ErrorToString(x, h) ==
    LET msg == IF x.k = "Errory" THEN h[x.id].message ELSE x.message
        nm == IF x.k = "Errory" THEN h[x.id].name ELSE x.name
    IN IF msg = <<>> THEN <<nm>> ELSE <<nm, ": ">> \o msg

\* String(x), as sprintf-js applies it for %s
String(x, h) ==
    CASE x.k = "string" -> x.v
      [] x.k = "undefined" -> <<"undefined">>
      [] x.k = "null" -> <<"null">>
      [] x.k \in {"Error", "Errory"} -> ErrorToString(x, h)
      [] OTHER -> <<"[object Object]">>

RECURSIVE vsprintf(_, _, _)
\* vsprintf(fMsg, args): each %s takes the next argument
vsprintf(fMsg, args, h) ==
    IF fMsg = <<>> THEN <<>>
    ELSE IF Head(fMsg) = "%s"
         THEN (IF args = <<>> THEN String(Undefined, h) ELSE String(Head(args), h))
              \o vsprintf(Tail(fMsg), IF args = <<>> THEN <<>> ELSE Tail(args), h)
         ELSE <<Head(fMsg)>> \o vsprintf(Tail(fMsg), args, h)

genLocationErrorStr(print, stack, relative) ==
    IF ~print THEN <<>>
    ELSE IF relative
         THEN green(<<"  (">> \o DropFirst(stack.fileName, 2)
                    \o <<":", stack.lineNumber, ":", stack.columnNumber, ")">>)
         ELSE green(<<"  (">> \o stack.fileName
                    \o <<":", stack.lineNumber, ":", stack.columnNumber, ")">>)

genTypeStr(print, preceedingChars, type) ==
    IF ~print \/ ~Truthy(type) THEN <<>>
    ELSE <<"  ">> \o green(preceedingChars \o type.v)

genMessageStr(fMsg, args, h) == vsprintf(fMsg, args, h)

genTypeTag(preceedingChars, type) == preceedingChars \o type

genWrappedErrorStr(error, indent, h) ==
    IF ~Truthy(error) THEN <<>>
    ELSE IF error.k = "Errory"
         THEN <<"\n">> \o [n \in 1..indent |-> "    "] \o green(<<" \\u2B91">>)
              \o <<"   ">> \o ErrorToString(error, h)
         ELSE <<": ">> \o ErrorToString(error, h)

\* variant: the location fragment is written before the type fragment
genMessage_LocationBeforeType(e, typeInMessage, typePreceedingChars, locationInMessage, locationAsRelativePath, wrappedErrorInMessage, indent, h) ==
    genMessageStr(e.closureMessage, e.args, h)
    \o genLocationErrorStr(locationInMessage, e.stackFrames[1], locationAsRelativePath)
    \o genTypeStr(~e.typeIsInMessageString /\ typeInMessage, typePreceedingChars, e.type)
    \o (IF wrappedErrorInMessage THEN genWrappedErrorStr(e.wrappedError, indent, h) ELSE <<>>)

\* genMessage of the error e (a record of its __errory__ properties and closure)
genMessage(e, typeInMessage, typePreceedingChars, locationInMessage, locationAsRelativePath, wrappedErrorInMessage, indent, h) ==
    genMessageStr(e.closureMessage, e.args, h)
    \o genTypeStr(~e.typeIsInMessageString /\ typeInMessage, typePreceedingChars, e.type)
    \o genLocationErrorStr(locationInMessage, e.stackFrames[1], locationAsRelativePath)
    \o (IF wrappedErrorInMessage THEN genWrappedErrorStr(e.wrappedError, indent, h) ELSE <<>>)

\* genMessage called with the registry's instanceOptions and the default indent
genMessageWithInstanceOptions(e, h) ==
    LET o == instanceOptions(e.registry)
    IN genMessage(e, o.typeInMessage, o.typePreceedingChars, o.locationInMessage,
                  o.locationAsRelativePath, o.wrappedErrorInMessage, 0, h)

\* the stack rebuildStack stores, given the current err.stack and message
rebuildStack(errStack, message) ==
    LET errorStacks == SplitNL(errStack)
        firstLine == green(<<"\\u{1F6D1}">>) \o <<" Error: ">> \o message
        remainingStacks == SubSeq(errorStacks, 4, Len(errorStacks))
    IN JoinNL(<<firstLine>> \o remainingStacks)

----------------------------------------------------------------------------
(* errorFactory *)

RECURSIVE ScanTypeTags(_, _, _, _)
\* the loop over configuredErrorTypes that looks for a type tag in message:
\* every match overwrites errorTypeInMessageStr
ScanTypeTags(r, message, n, errorTypeInMessageStr) ==
    IF n > Len(configuredErrorTypes(r)) THEN errorTypeInMessageStr
    ELSE LET errType == configuredErrorTypes(r)[n].name
         IN IF Includes(message, genTypeTag(instanceOptions(r).typePreceedingChars, errType))
            THEN ScanTypeTags(r, message, n + 1, Str(errType))
            ELSE ScanTypeTags(r, message, n + 1, errorTypeInMessageStr)

\* errType[0].toUpperCase() + the rest of errType
errTypeCapitalized(errType) == <<ToUpperCase(Head(errType))>> \o Tail(errType)

\* the name of the predicate property of errType
PredicateName(errType) == <<"is">> \o errTypeCapitalized(errType)

RECURSIVE DefinePredicates(_, _, _)
\* the loop that defines one is[ErrorType] property per configured type;
\* defining a non-configurable property a second time throws
DefinePredicates(r, n, props) ==
    IF n > Len(configuredErrorTypes(r)) THEN [status |-> "return", value |-> props]
    ELSE LET errType == configuredErrorTypes(r)[n].name
             prop == PredicateName(errType)
         IN IF prop \in DOMAIN props
            THEN [status |-> "throw", value |-> props]
            ELSE DefinePredicates(r, n + 1,
                     [q \in (DOMAIN props) \cup {prop} |->
                         IF q = prop THEN errType ELSE props[q]])

\* variant: the trailing Error is left among the format arguments
ArgsAfterExtraction_KeepsAll(args) == args

\* args after the extraction of a trailing Error
ArgsAfterExtraction(args) ==
    IF Len(args) > 0 /\ InstanceofError(args[Len(args)])
    THEN SubSeq(args, 1, Len(args) - 1)
    ELSE args

\* the wrappedError property after the extraction of a trailing Error
WrappedErrorOf(args) ==
    IF Len(args) > 0 /\ InstanceofError(args[Len(args)])
    THEN args[Len(args)]
    ELSE Null

\* errorFactory(message, args) of registry r, called depth frames deep
errorFactory(r, message, args, depth, h) ==
    LET errorTypeInMessageStr == ScanTypeTags(r, message, 1, Undefined)
        stackFrames == DropFirst(ErrorStackParserParse(depth), 2)
        e0 == [registry |-> r,
               closureMessage |-> message,
               name |-> "Error",
               context |-> Obj(<< >>),
               type |-> errorTypeInMessageStr,
               typeIsInMessageString |-> Truthy(errorTypeInMessageStr),
               stackFrames |-> stackFrames,
               args |-> ArgsAfterExtraction(args),
               wrappedError |-> WrappedErrorOf(args),
               errory |-> TRUE]
        msg == genMessageWithInstanceOptions(e0, h)
        preds == DefinePredicates(r, 1, << >>)
        e1 == [registry |-> r,
               closureMessage |-> message,
               name |-> "Error",
               context |-> e0.context,
               type |-> e0.type,
               typeIsInMessageString |-> e0.typeIsInMessageString,
               stackFrames |-> stackFrames,
               args |-> e0.args,
               wrappedError |-> e0.wrappedError,
               errory |-> TRUE,
               message |-> msg,
               predicates |-> preds.value,
               stack |-> rebuildStack(RawStack(depth), msg)]
    IN IF preds.status = "throw"
       THEN [status |-> "throw", value |-> Undefined]
       ELSE [status |-> "return", value |-> e1]

\* variant: the further arguments are handed on as format arguments
errorConstructor_PassesArgs(r, messageOrError, args, depth, h) ==
    IF InstanceofError(messageOrError)
    THEN errorFactory(r,
                      IF messageOrError.k = "Errory" THEN h[messageOrError.id].message
                      ELSE messageOrError.message,
                      args, depth, h)
    ELSE errorFactory(r, messageOrError.v, args, depth, h)

\* errorConstructor(messageOrError, ...args) of registry r
errorConstructor(r, messageOrError, args, depth, h) ==
    IF InstanceofError(messageOrError)
    THEN errorFactory(r,
                      IF messageOrError.k = "Errory" THEN h[messageOrError.id].message
                      ELSE messageOrError.message,
                      << >>, depth, h)
    ELSE errorFactory(r, messageOrError.v, args, depth, h)

----------------------------------------------------------------------------
(* The methods of an Errory error.  Each returns how the call ends         *)
(* (status), what it returns (value) and the error's properties after the  *)
(* call (self).                                                            *)

\* variant: a second call is refused only when it repeats the type already set
type_RefusesSameTypeOnly(i, typeArg, contextArg, h) ==
    LET e == h[i]
    IN IF ~Truthy(typeArg) /\ ~Truthy(contextArg)
       THEN [status |-> "return", value |-> e.type, self |-> e]
       ELSE IF Truthy(e.type) /\ e.type = typeArg
       THEN [status |-> "throw", value |-> Undefined, self |-> e]
       ELSE LET e1 == [e EXCEPT !.type = typeArg, !.context = contextArg]
                e2 == [e1 EXCEPT !.message = genMessageWithInstanceOptions(e1, h)]
                e3 == [e2 EXCEPT !.stack = rebuildStack(e2.stack, e2.message)]
            IN [status |-> "return", value |-> ErroryRef(i), self |-> e3]

\* variant: the context is stored before the already-set check
type_StoresContextBeforeCheck(i, typeArg, contextArg, h) ==
    LET e == h[i]
    IN IF ~Truthy(typeArg) /\ ~Truthy(contextArg)
       THEN [status |-> "return", value |-> e.type, self |-> e]
       ELSE IF Truthy(e.type)
       THEN [status |-> "throw", value |-> Undefined,
             self |-> [e EXCEPT !.context = contextArg]]
       ELSE LET e1 == [e EXCEPT !.type = typeArg, !.context = contextArg]
                e2 == [e1 EXCEPT !.message = genMessageWithInstanceOptions(e1, h)]
                e3 == [e2 EXCEPT !.stack = rebuildStack(e2.stack, e2.message)]
            IN [status |-> "return", value |-> ErroryRef(i), self |-> e3]

\* variant: the already-set check comes before the check for a call
\* without arguments
type_ChecksSetFirst(i, typeArg, contextArg, h) ==
    LET e == h[i]
    IN IF Truthy(e.type)
       THEN [status |-> "throw", value |-> Undefined, self |-> e]
       ELSE IF ~Truthy(typeArg) /\ ~Truthy(contextArg)
       THEN [status |-> "return", value |-> e.type, self |-> e]
       ELSE LET e1 == [e EXCEPT !.type = typeArg, !.context = contextArg]
                e2 == [e1 EXCEPT !.message = genMessageWithInstanceOptions(e1, h)]
                e3 == [e2 EXCEPT !.stack = rebuildStack(e2.stack, e2.message)]
            IN [status |-> "return", value |-> ErroryRef(i), self |-> e3]

\* err.type(type, context), err being the error h[i]
type(i, typeArg, contextArg, h) ==
    LET e == h[i]
    IN IF ~Truthy(typeArg) /\ ~Truthy(contextArg)
       THEN [status |-> "return", value |-> e.type, self |-> e]
       ELSE IF Truthy(e.type)
       THEN [status |-> "throw", value |-> Undefined, self |-> e]
       ELSE LET e1 == [e EXCEPT !.type = typeArg, !.context = contextArg]
                e2 == [e1 EXCEPT !.message = genMessageWithInstanceOptions(e1, h)]
                e3 == [e2 EXCEPT !.stack = rebuildStack(e2.stack, e2.message)]
            IN [status |-> "return", value |-> ErroryRef(i), self |-> e3]

\* err.is[ErrorType]() for the predicate property prop
predicate(e, prop) == e.type = Str(e.predicates[prop])

\* err.wrappedError()
wrappedError(e) == e.wrappedError

----------------------------------------------------------------------------
(* JSON.  A JSON text is modelled by the value tree it denotes.            *)

JOmitted == [j |-> "omitted"]

RECURSIVE JSONStringify(_)
\* JSON.stringify(x): undefined is omitted, NaN becomes null
JSONStringify(x) ==
    CASE x.k = "undefined" -> JOmitted
      [] x.k = "null" -> [j |-> "null"]
      [] x.k = "string" -> [j |-> "string", v |-> x.v]
      [] x.k = "boolean" -> [j |-> "boolean", v |-> x.v]
      [] x.k = "number" ->
            IF "nan" \in DOMAIN x THEN [j |-> "null"] ELSE [j |-> "number", v |-> x.v]
      [] x.k = "array" ->
            [j |-> "array",
             v |-> [n \in 1..Len(x.v) |->
                       IF x.v[n].k = "undefined" THEN [j |-> "null"]
                       ELSE JSONStringify(x.v[n])]]
      [] x.k = "object" ->
            [j |-> "object",
             m |-> [key \in {q \in DOMAIN x.m : x.m[q].k # "undefined"} |->
                       JSONStringify(x.m[key])]]
      [] OTHER -> [j |-> "object", m |-> << >>]

RECURSIVE JSONParse(_)
\* JSON.parse(t)
JSONParse(t) ==
    CASE t.j = "null" -> Null
      [] t.j = "string" -> Str(t.v)
      [] t.j = "boolean" -> Bool(t.v)
      [] t.j = "number" -> Num(t.v)
      [] t.j = "array" -> Arr([n \in 1..Len(t.v) |-> JSONParse(t.v[n])])
      [] t.j = "object" -> Obj([key \in DOMAIN t.m |-> JSONParse(t.m[key])])

\* obj[key] of a parsed object: undefined when the key is absent
Get(obj, key) == IF key \in DOMAIN obj.m THEN obj.m[key] ELSE Undefined

\* a StackFrame as a JavaScript object
StackFrameObject(f) ==
    Obj([functionName |-> Str(<<f.functionName>>),
         fileName |-> Str(f.fileName),
         lineNumber |-> Str(<<f.lineNumber>>),
         columnNumber |-> Str(<<f.columnNumber>>)])

\* variant: the message field carries the raw template, not the rendered message
toJSON_RawTemplate(e, pretty) ==
    [k |-> "string",
     json |-> JSONStringify(Obj([name |-> Str(<<e.name>>),
                                 type |-> e.type,
                                 message |-> Str(e.closureMessage),
                                 context |-> e.context,
                                 stack |-> Arr([n \in 1..Len(e.stackFrames) |->
                                                   StackFrameObject(e.stackFrames[n])])])),
     indent |-> IF pretty THEN 2 ELSE 0]

\* err.toJSON(pretty): the JSON text and its indentation
toJSON(e, pretty) ==
    [k |-> "string",
     json |-> JSONStringify(Obj([name |-> Str(<<e.name>>),
                                 type |-> e.type,
                                 message |-> Str(e.message),
                                 context |-> e.context,
                                 stack |-> Arr([n \in 1..Len(e.stackFrames) |->
                                                   StackFrameObject(e.stackFrames[n])])])),
     indent |-> IF pretty THEN 2 ELSE 0]

----------------------------------------------------------------------------
(* errorConstructor.is *)

\* reading a property of null or undefined throws a TypeError
ThrowsOnPropertyRead(x) == x.k \in {"undefined", "null"}

\* error.__errory
MarkerOf(x) == IF x.k = "Errory" THEN Bool(TRUE) ELSE Undefined

\* error.__errory__type
TypePropertyOf(x, h) == IF x.k = "Errory" THEN h[x.id].type ELSE Undefined

\* variant: the type argument is not compared with the error's type
is_IgnoresType(r, error, typeArg, h) ==
    IF ThrowsOnPropertyRead(error)
    THEN [status |-> "throw", value |-> Undefined]
    ELSE IF MarkerOf(error) = Bool(TRUE)
         THEN [status |-> "return", value |-> Bool(TRUE)]
         ELSE [status |-> "return", value |-> Bool(FALSE)]

\* the is function of registry r
is(r, error, typeArg, h) ==
    IF ThrowsOnPropertyRead(error)
    THEN [status |-> "throw", value |-> Undefined]
    ELSE IF MarkerOf(error) = Bool(TRUE)
         THEN IF Truthy(typeArg)
              THEN IF TypePropertyOf(error, h) = typeArg
                   THEN [status |-> "return", value |-> Bool(TRUE)]
                   ELSE [status |-> "return", value |-> Bool(FALSE)]
              ELSE [status |-> "return", value |-> Bool(TRUE)]
         ELSE [status |-> "return", value |-> Bool(FALSE)]

----------------------------------------------------------------------------
(* The calls the calling code makes *)

\* the error values the calling code can pass: a plain Error or an Errory
\* error built earlier
Causes(h) == {PlainError(<<"cause">>)} \cup {ErroryRef(j) : j \in 1..Len(h)}

\* the (registry, messageOrError, args) of the calls to a factory
FactoryCalls(h) ==
    {[r |-> r, messageOrError |-> Str(<<"msg">>), args |-> << >>] : r \in Registries}
    \cup {[r |-> "R1", messageOrError |-> Str(<<"msg ", "%s">>), args |-> <<Str(<<"x">>), c>>] :
             c \in Causes(h)}
    \cup {[r |-> "R1", messageOrError |-> Str(<<"msg ", "%s">>),
           args |-> <<PlainError(<<"cause">>), Str(<<"x">>)>>]}
    \cup {[r |-> "R1", messageOrError |-> Str(<<"msg ", "--", "D", "BError">>), args |-> << >>]}
    \cup {[r |-> "R1", messageOrError |-> c, args |-> <<Str(<<"x">>)>>] : c \in Causes(h)}
    \cup {[r |-> "R1",
           messageOrError |-> Str(<<"msg ", "--", "D", "BError", " ", "--", "A", "uthError">>),
           args |-> << >>]}
    \cup {[r |-> "R1", messageOrError |-> PlainError(<<"bad ", "--", "A", "uthError">>),
           args |-> << >>]}

\* the context arguments passed to err.type
ContextArgs ==
    {Undefined,
     Obj([table |-> Str(<<"users">>), rows |-> Num(3)]),
     Obj([rows |-> NaN])}

\* the (type, context) arguments of the calls to err.type: a declared type
\* with each context, a context key the type does not declare, an undeclared
\* type, a context without a type, and no argument at all
TypeCalls ==
    {<<Str(DBError), c>> : c \in ContextArgs}
    \cup {<<Str(AuthError), Obj([table |-> Str(<<"users">>), rows |-> Num(3)])>>,
          <<Str(NetError), Undefined>>,
          <<Undefined, Obj([rows |-> NaN])>>,
          <<Undefined, Undefined>>}

\* the type arguments passed to is
IsTypeArgs == {Undefined, Str(DBError), Str(AuthError)}

\* the candidates passed to is
Candidates(h) ==
    Causes(h) \cup {Null, Undefined, Obj(<< >>)}

----------------------------------------------------------------------------
(* State: errs is the heap of the Errory errors built so far; ret is the   *)
(* operation last called and how it ended.  What a call returns is given   *)
(* by the operator of the same name.                                       *)

Init ==
    /\ errs = << >>
    /\ ret = [op |-> "none", status |-> "return"]

\* factory(messageOrError, ...args), called depth frames deep
Construct(call, depth) ==
    /\ Len(errs) < MaxInst
    /\ LET res == errorConstructor(call.r, call.messageOrError, call.args, depth, errs)
       IN /\ ret' = [op |-> "errorConstructor", status |-> res.status]
          /\ errs' = IF res.status = "return" THEN Append(errs, res.value) ELSE errs

\* errs[i].type(typeArg, contextArg)
Type(i, typeArg, contextArg) ==
    LET res == type(i, typeArg, contextArg, errs)
    IN /\ ret' = [op |-> "type", status |-> res.status]
       /\ errs' = [errs EXCEPT ![i] = res.self]

\* errs[i].toJSON(pretty)
ToJSON(i, pretty) ==
    /\ ret' = [op |-> "toJSON", status |-> "return"]
    /\ UNCHANGED errs

\* errs[i].wrappedError()
WrappedError(i) ==
    /\ ret' = [op |-> "wrappedError", status |-> "return"]
    /\ UNCHANGED errs

\* errs[i].is[ErrorType]()
Predicate(i, prop) ==
    /\ ret' = [op |-> "predicate", status |-> "return"]
    /\ UNCHANGED errs

\* factory.is(error, typeArg) of registry r
Is(r, error, typeArg) ==
    /\ ret' = [op |-> "is", status |-> is(r, error, typeArg, errs).status]
    /\ UNCHANGED errs

Next ==
    \/ \E call \in FactoryCalls(errs) : Construct(call, MaxFrames)
    \/ \E i \in 1..Len(errs), tc \in TypeCalls : Type(i, tc[1], tc[2])
    \/ \E i \in 1..Len(errs), pretty \in BOOLEAN : ToJSON(i, pretty)
    \/ \E i \in 1..Len(errs) : WrappedError(i)
    \/ \E i \in 1..Len(errs) : \E prop \in DOMAIN errs[i].predicates : Predicate(i, prop)
    \/ \E r \in {"R1", "R2"}, error \in Candidates(errs), typeArg \in IsTypeArgs :
           Is(r, error, typeArg)

Spec == Init /\ [][Next]_vars

----------------------------------------------------------------------------
(* Chains: the calling code wraps each Errory error it built in the next   *)
(* one, and may set the type of any of them at any time.                   *)

\* the factory calls that build a chain: the first error wraps nothing or a
\* plain Error, every later one wraps the error built before it
ChainCalls(h) ==
    IF h = << >>
    THEN {[r |-> "R1", messageOrError |-> Str(<<"msg">>), args |-> << >>],
          [r |-> "R1", messageOrError |-> Str(<<"msg">>), args |-> <<PlainError(<<"cause">>)>>]}
    ELSE {[r |-> r, messageOrError |-> Str(<<"msg">>), args |-> <<ErroryRef(Len(h))>>] :
             r \in {"R1", "R2"}}

\* the (type, context) arguments of the type calls on the errors of a chain
ChainTypeCalls ==
    {<<Str(DBError), Undefined>>,
     <<Str(DBError), Obj([table |-> Str(<<"users">>), rows |-> Num(3)])>>,
     <<Undefined, Undefined>>}

\* factory(messageOrError, ...args) while the chain is shorter than MaxChain
Wrap(call, depth) ==
    /\ Len(errs) < MaxChain
    /\ LET res == errorConstructor(call.r, call.messageOrError, call.args, depth, errs)
       IN /\ ret' = [op |-> "errorConstructor", status |-> res.status]
          /\ errs' = IF res.status = "return" THEN Append(errs, res.value) ELSE errs

NextChain ==
    \/ \E call \in ChainCalls(errs) : Wrap(call, MaxFrames)
    \/ \E i \in 1..Len(errs), tc \in ChainTypeCalls : Type(i, tc[1], tc[2])
    \/ \E i \in 1..Len(errs) : WrappedError(i)

SpecChain == Init /\ [][NextChain]_vars

----------------------------------------------------------------------------
(* Properties *)

\* errs changes in Construct and Type only, so every value errs takes is the
\* value in a state whose last operation is one of them (or none, in Init)
ErrsJustSet == ret.op \in {"none", "errorConstructor", "type"}

\* the category names used in calls: those of R1 and an undeclared one
Names == {DBError, AuthError, NetError}

\* the context schema registry r declares for the type value t; none if t is
\* not the name of a declared type
SchemaKeys(r, t) ==
    IF t.k = "string" /\ t.v \in Declared(r)
    THEN LET n == CHOOSE m \in 1..Len(configuredErrorTypes(r)) :
                      configuredErrorTypes(r)[m].name = t.v
         IN DOMAIN configuredErrorTypes(r)[n].config.context
    ELSE {}

\* C1: once the type of an error is set (by a type call or by the tag found
\* in the template), every type call that passes a type throws, whether or
\* not the type passed is the one already set.
C1_WriteOnce ==
    ErrsJustSet => \A i \in 1..Len(errs) :
        Truthy(errs[i].type) =>
            \A c2 \in Names, ctx \in ContextArgs :
                type(i, Str(c2), ctx, errs).status = "throw"

\* an error typed by a type call, on which a later type call has thrown
C1_Witness ==
    /\ ret.op = "type" /\ ret.status = "throw"
    /\ \E i \in 1..Len(errs) : Truthy(errs[i].type) /\ ~errs[i].typeIsInMessageString

\* C2: a type call that throws leaves every property of every error as it
\* was: type, context, message, stack and predicates.
C2_FailedTypeChangesNothing ==
    [][(ret'.op = "type" /\ ret'.status = "throw") => errs' = errs]_vars

\* an error holding a type and a context, on which a type call has thrown
C2_Witness ==
    /\ ret.op = "type" /\ ret.status = "throw"
    /\ \E i \in 1..Len(errs) : Truthy(errs[i].type) /\ Truthy(errs[i].context)

\* C3: the is function of a registry returns true for the errors its own
\* factory built and false for the errors of another registry's factory.
C3_IdentityClosure ==
    \A i \in 1..Len(errs), r \in Registries :
        is(r, ErroryRef(i), Undefined, errs) =
            [status |-> "return", value |-> Bool(errs[i].registry = r)]

\* C4: for an error e of a registry, is(e) is true in every state and
\* is(e, c) is true exactly when the type of e is c, for every declared c.
C4_IsMatchesType ==
    ErrsJustSet => \A i \in 1..Len(errs) :
        LET r == errs[i].registry
        IN /\ is(r, ErroryRef(i), Undefined, errs) =
                  [status |-> "return", value |-> Bool(TRUE)]
           /\ \A c \in Declared(r) :
                  is(r, ErroryRef(i), Str(c), errs) =
                      [status |-> "return", value |-> Bool(errs[i].type = Str(c))]

\* is has been called while an error of R1 carries a declared type
C4_Witness ==
    /\ ret.op = "is" /\ ret.status = "return"
    /\ \E i \in 1..Len(errs) :
           errs[i].type.k = "string" /\ errs[i].type.v \in Declared(errs[i].registry)

\* C5: is never throws, and returns false for every candidate no factory
\* built.
C5_IsNeverThrows ==
    \A r \in Registries, error \in Candidates(errs), typeArg \in IsTypeArgs :
        LET res == is(r, error, typeArg, errs)
        IN /\ res.status = "return"
           /\ res.value.k = "boolean"
           /\ error.k # "Errory" => res.value = Bool(FALSE)

\* C6: an error has one predicate per declared type; all of them return
\* false while the type is unset, and once a type call has set the type
\* exactly one returns true, the predicate of that type.
C6_PredicateConsistency ==
    \A i \in 1..Len(errs) :
        LET e == errs[i]
            r == e.registry
            holding == {prop \in DOMAIN e.predicates : predicate(e, prop)}
        IN /\ \A c \in Declared(r) :
                  PredicateName(c) \in DOMAIN e.predicates
                  /\ e.predicates[PredicateName(c)] = c
           /\ Cardinality(DOMAIN e.predicates) = Cardinality(Declared(r))
           /\ ~Truthy(e.type) => holding = {}
           /\ Truthy(e.type) => holding = {PredicateName(e.type.v)}

\* the factory calls with a string template: those of FactoryCalls and one
\* whose last two arguments are both errors
TemplateCalls(h) ==
    {call \in FactoryCalls(h) : call.messageOrError.k = "string"}
    \cup {[r |-> "R1", messageOrError |-> Str(<<"msg ", "%s">>),
           args |-> <<PlainError(<<"first">>), c>>] : c \in Causes(h)}

\* C7: a factory call with a string template whose last argument is an error
\* removes that one argument from the format arguments and returns it from
\* wrappedError(); the other arguments keep their order and the formatted
\* message is the one of the template with the other arguments.  When the
\* last argument is not an error, no argument is removed and wrappedError()
\* is null.
C7_CauseExtraction ==
    ErrsJustSet => \A call \in TemplateCalls(errs) :
        LET res == errorConstructor(call.r, call.messageOrError, call.args, MaxFrames, errs)
            e == res.value
            n == Len(call.args)
            front == SubSeq(call.args, 1, n - 1)
            formatted == vsprintf(call.messageOrError.v, front, errs)
        IN res.status = "return" =>
              IF n > 0 /\ InstanceofError(call.args[n])
              THEN /\ wrappedError(e) = call.args[n]
                   /\ e.args = front
                   /\ SubSeq(e.message, 1, Len(formatted)) = formatted
              ELSE /\ wrappedError(e) = Null
                   /\ e.args = call.args

\* a factory call with a format argument and a trailing error has returned
C7_Witness ==
    /\ ret.op = "errorConstructor" /\ ret.status = "return"
    /\ \E i \in 1..Len(errs) :
           /\ errs[i].wrappedError = PlainError(<<"cause">>)
           /\ errs[i].args = <<Str(<<"x">>)>>

\* C8: a type call on an error without a type, passing a name the registry
\* does not declare, throws and leaves the error without a type.
C8_UndeclaredTypeThrows ==
    \A i \in 1..Len(errs) :
        ~Truthy(errs[i].type) =>
            \A c \in Names \ Declared(errs[i].registry), ctx \in ContextArgs :
                LET res == type(i, Str(c), ctx, errs)
                IN res.status = "throw" /\ ~Truthy(res.self.type)

\* the keys of the context of e
ContextKeys(e) == IF e.context.k = "object" THEN DOMAIN e.context.m ELSE {}

\* C9: the keys of the context of an error are among the keys of the context
\* schema declared for its type.
C9_ContextKeysDeclared ==
    \A i \in 1..Len(errs) :
        ContextKeys(errs[i]) \subseteq SchemaKeys(errs[i].registry, errs[i].type)

\* what toJSON's text gives back for e: type, context and message agree
RoundTrips(e) ==
    \A pretty \in BOOLEAN :
        LET parsed == JSONParse(toJSON(e, pretty).json)
        IN /\ Get(parsed, "type") = e.type
           /\ Get(parsed, "context") = e.context
           /\ Get(parsed, "message") = Str(e.message)

\* C10 as stated: for every error with a type, parsing toJSON() gives back
\* the type, a context equal to the error's and the rendered message, and
\* toJSON changes nothing.
C10_RoundTrip ==
    /\ [](\A i \in 1..Len(errs) : Truthy(errs[i].type) => RoundTrips(errs[i]))
    /\ [][ret'.op = "toJSON" => errs' = errs]_vars

\* a context JSON can carry: absent, or strings, booleans and finite numbers
JSONRepresentable(context) ==
    \/ context.k = "undefined"
    \/ /\ context.k = "object"
       /\ \A key \in DOMAIN context.m :
              /\ context.m[key].k \in {"string", "boolean", "number"}
              /\ "nan" \notin DOMAIN context.m[key]

\* C10 amended: the round trip holds for every error with a type whose
\* context is absent or holds only strings, booleans and finite numbers.
C10_RoundTripRepresentable ==
    /\ [](\A i \in 1..Len(errs) :
             (Truthy(errs[i].type) /\ JSONRepresentable(errs[i].context))
                 => RoundTrips(errs[i]))
    /\ [][ret'.op = "toJSON" => errs' = errs]_vars

\* toJSON has been called on an error with a type and a context of values
C10_Witness ==
    /\ ret.op = "toJSON"
    /\ \E i \in 1..Len(errs) :
           /\ Truthy(errs[i].type)
           /\ errs[i].context = Obj([table |-> Str(<<"users">>), rows |-> Num(3)])

\* the formatted template of e
FormattedTemplate(e, h) == vsprintf(e.closureMessage, e.args, h)

\* the type fragment: two spaces, then the styled prefix and type
TypeFragment(e, typeInMessage, typePreceedingChars) ==
    IF typeInMessage /\ Truthy(e.type) /\ ~e.typeIsInMessageString
    THEN <<"  ">> \o green(typePreceedingChars \o e.type.v)
    ELSE << >>

\* the location fragment: the styled position of the first caller frame
LocationFragment(e, locationInMessage, locationAsRelativePath) ==
    LET f == e.stackFrames[1]
        file == IF locationAsRelativePath THEN SubSeq(f.fileName, 3, Len(f.fileName))
                ELSE f.fileName
    IN IF locationInMessage
       THEN green(<<"  (">> \o file \o <<":", f.lineNumber, ":", f.columnNumber, ")">>)
       ELSE << >>

\* m is made of the template, type and location fragments in this order,
\* followed by the fragment of the wrapped error when there is one to show
ComposedInOrder(m, e, typeInMessage, typePreceedingChars, locationInMessage, locationAsRelativePath, wrappedErrorInMessage, h) ==
    LET head == FormattedTemplate(e, h)
                \o TypeFragment(e, typeInMessage, typePreceedingChars)
                \o LocationFragment(e, locationInMessage, locationAsRelativePath)
        rest == SubSeq(m, Len(head) + 1, Len(m))
    IN /\ Len(m) >= Len(head)
       /\ SubSeq(m, 1, Len(head)) = head
       /\ IF ~wrappedErrorInMessage \/ e.wrappedError = Null
          THEN rest = << >>
          ELSE IF e.wrappedError.k = "Error"
               THEN rest = <<": ">> \o ErrorToString(e.wrappedError, h)
               ELSE rest # << >> /\ Head(rest) = "\n"

C12_MessageConsistent ==
    \A i \in 1..Len(errs) :
        errs[i].message = genMessageWithInstanceOptions(errs[i], errs)

\* the number of indentation units ("    ") a line starts with
Indentation(line) ==
    Cardinality({n \in 1..Len(line) : \A m \in 1..n : line[m] = "    "})

\* a line that, after its indentation, starts with the styled arrow
ArrowPrefixed(line) ==
    LET rest == SubSeq(line, Indentation(line) + 1, Len(line))
    IN Len(rest) >= Len(green(<<" \\u2B91">>))
       /\ SubSeq(rest, 1, Len(green(<<" \\u2B91">>))) = green(<<" \\u2B91">>)

\* C19: a wrapped Errory error is shown on a new, arrow-prefixed line; in a
\* chain of Errory errors each wrapping the next, the line of the error at
\* depth k is indented more than the line of the error at depth k-1; a plain
\* wrapped error is shown as the suffix ": " and its toString().
C19_NestedIndentation ==
    \A i \in 1..Len(errs) :
        LET e == errs[i]
            lines == SplitNL(e.message)
            suffix == <<": ">> \o ErrorToString(e.wrappedError, errs)
        IN /\ e.wrappedError.k = "Errory" =>
                  /\ Len(lines) >= 2
                  /\ ArrowPrefixed(lines[2])
                  /\ \A k \in 3..Len(lines) :
                         Indentation(lines[k]) > Indentation(lines[k - 1])
           /\ e.wrappedError.k = "Error" =>
                  /\ Len(e.message) >= Len(suffix)
                  /\ SubSeq(e.message, Len(e.message) - Len(suffix) + 1, Len(e.message)) = suffix

\* the stack an error should show: the first line with its message, then
\* the line of each caller frame
StackOfCallerFrames(e) ==
    JoinNL(<< green(<<"\\u{1F6D1}">>) \o <<" Error: ">> \o e.message >>
           \o [n \in 1..Len(e.stackFrames) |-> FrameLine(e.stackFrames[n])])

\* C13: after construction and after a successful type call, the stack is
\* the first line with the current message followed by exactly the lines of
\* the caller frames (the raw trace without the two internal frames).
C13_StackLockstep ==
    \A i \in 1..Len(errs) : errs[i].stack = StackOfCallerFrames(errs[i])

RECURSIVE FirstMatch(_, _, _)
\* the first declared name, in declaration order, whose tag message contains
FirstMatch(r, message, n) ==
    IF n > Len(configuredErrorTypes(r)) THEN Undefined
    ELSE LET errType == configuredErrorTypes(r)[n].name
         IN IF Includes(message, genTypeTag(instanceOptions(r).typePreceedingChars, errType))
            THEN Str(errType)
            ELSE FirstMatch(r, message, n + 1)

\* C14: an error whose template contains the tag of one or more declared
\* types has the first of them, in declaration order, as its type from
\* construction on; an error whose template contains none is constructed
\* without a type.
C14_FirstMatchWins ==
    \A i \in 1..Len(errs) :
        LET first == FirstMatch(errs[i].registry, errs[i].closureMessage, 1)
        IN IF Truthy(first)
           THEN errs[i].type = first /\ errs[i].typeIsInMessageString
           ELSE ~errs[i].typeIsInMessageString

\* the calls to a factory whose first argument is an error
WrapCalls(h) ==
    {call \in FactoryCalls(h) : InstanceofError(call.messageOrError)}
    \cup {[r |-> "R1",
           messageOrError |-> PlainError(<<"bad ", "--", "D", "BError", " ", "--", "A", "uthError">>),
           args |-> <<Str(<<"x">>)>>]}

\* error.message of an error value
MessageOf(error, h) ==
    IF error.k = "Errory" THEN h[error.id].message ELSE error.message

\* the positions, in declaration order, of the types whose tag message contains
Matches(r, message) ==
    {n \in 1..Len(configuredErrorTypes(r)) :
        Includes(message, instanceOptions(r).typePreceedingChars \o configuredErrorTypes(r)[n].name)}

\* the messages of the plain errors handed to a factory as first argument
WrappedMessages ==
    {call.messageOrError.message : call \in {c \in WrapCalls(<< >>) : c.messageOrError.k = "Error"}}

\* C15 as stated: an error constructed from an existing error has that
\* error's message as template, no format arguments and no type, even if the
\* message contains the tag of a declared type.
C15_NoAutoDetection ==
    [][\A i \in 1..Len(errs') :
          (i > Len(errs) /\ errs'[i].closureMessage \in WrappedMessages)
              => /\ errs'[i].args = << >>
                 /\ errs'[i].type = Undefined]_vars

\* C15 amended: an error constructed from an existing error has that error's
\* message as template and no format arguments, whatever further arguments
\* are passed; the tag scan is applied to that message as to any template:
\* the type is the last declared type whose tag the message contains, and
\* it is unset only when the message contains none.
C15_WrappingOverload ==
    ErrsJustSet => \A call \in WrapCalls(errs) :
        LET res == errorConstructor(call.r, call.messageOrError, call.args, MaxFrames, errs)
            e == res.value
            m == Matches(call.r, MessageOf(call.messageOrError, errs))
        IN /\ res.status = "return"
           /\ e.closureMessage = MessageOf(call.messageOrError, errs)
           /\ e.args = << >>
           /\ e.type = IF m = {} THEN Undefined
                       ELSE Str(configuredErrorTypes(call.r)[CHOOSE n \in m : \A k \in m : k <= n].name)
           /\ e.typeIsInMessageString = (m # {})

\* an error has been constructed from an error whose message contains a tag
C15_Witness ==
    /\ ret.op = "errorConstructor" /\ ret.status = "return"
    /\ \E i \in 1..Len(errs) :
           /\ errs[i].closureMessage = <<"bad ", "--", "A", "uthError">>
           /\ errs[i].type = Str(AuthError)
           /\ errs[i].args = << >>

\* the name the README gives the catch-all type
UnknownError == <<"U", "nknownError">>

\* C16: every registry declares the catch-all type UnknownError besides
\* the types it was given, and every error has the predicate isUnknownError.
C16_CatchAllDeclared ==
    \A i \in 1..Len(errs) :
        /\ UnknownError \in Declared(errs[i].registry)
        /\ PredicateName(UnknownError) \in DOMAIN errs[i].predicates

\* C17: type() without arguments returns the type of the error, undefined
\* when it has none, never throws and changes no property of the error; after
\* a successful type(c, ctx) it returns c, and on a newly constructed error
\* whose template contains no tag it returns undefined.
C17_TypeGetter ==
    /\ [](\A i \in 1..Len(errs) :
             LET res == type(i, Undefined, Undefined, errs)
             IN /\ res.status = "return"
                /\ res.self = errs[i]
                /\ res.value = errs[i].type
                /\ res.value = Undefined \/ res.value.k = "string")
    /\ [][/\ Len(errs') > Len(errs)
                 => \A i \in (Len(errs) + 1)..Len(errs') :
                        Matches(errs'[i].registry, errs'[i].closureMessage) = {}
                            => type(i, Undefined, Undefined, errs').value = Undefined
          /\ (ret'.op = "type" /\ errs' # errs)
                 => \A i \in 1..Len(errs), tc \in TypeCalls :
                        (/\ errs'[i] # errs[i]
                         /\ Truthy(tc[1])
                         /\ type(i, tc[1], tc[2], errs).status = "return"
                         /\ errs'[i] = type(i, tc[1], tc[2], errs).self)
                            => type(i, Undefined, Undefined, errs').value = tc[1]]_vars

\* type() has returned on an error that has a type
C17_Witness ==
    /\ ret = [op |-> "type", status |-> "return"]
    /\ \E i \in 1..Len(errs) : Truthy(errs[i].type) /\ errs[i].typeIsInMessageString

\* C18: the context of every error is an object in every state: empty before
\* a type is set, the values passed after type(c, ctx), and still an object
\* after type(c) called without a context.
C18_ContextIsObject ==
    \A i \in 1..Len(errs) : errs[i].context.k = "object"

\* C20: the declared names of every registry being pairwise distinct and not
\* empty, every call to a factory returns an error, and the error has one
\* predicate per declared type.
C20_FactoryNeverThrows ==
    /\ ret.op = "errorConstructor" => ret.status = "return"
    /\ \A i \in 1..Len(errs) :
           Cardinality(DOMAIN errs[i].predicates) = Cardinality(Declared(errs[i].registry))

====
